---- MODULE Spec2Model ----
(***************************************************************************)
(* Model of GreenAIModel.py: the Flask handler get_route_recommendation    *)
(* and the five adapters it sequences (get_eco_route, get_energy_data,     *)
(* get_weather_data, calculate_emissions, get_openai_recommendation).      *)
(*                                                                         *)
(* Python values.  None, strings and lists are tagged records (field py);  *)
(* dicts are functions from key strings to values, so a dict has no py     *)
(* key.  Floats are fixed point:                                           *)
(*   distance_km            in tenths of a kilometre   (559.0 km = 5590)   *)
(*   carbon_g               in grams                                       *)
(*   carbon_kg              in 1/10000 kg              (50.0 kg = 500000)  *)
(*   the '.2f' prompt field in hundredths of a kilogram                    *)
(* so  x / 1000  on metres is  x \div 100,  g / 1000  is  g * 10,          *)
(* km * 2.31 is  km * 2310  and  km * 2310  is  km * 231.                  *)
(***************************************************************************)
EXTENDS Integers, Sequences, FiniteSets, TLC

VARIABLES req, pc, route_data, energy_data, weather_origin,
          weather_destination, carbon_emissions, optimized_route, prompt,
          recommendation, openai_api_key, calls, posted, upstream, returned,
          used_key, responses

vars == <<req, pc, route_data, energy_data, weather_origin,
          weather_destination, carbon_emissions, optimized_route, prompt,
          recommendation, openai_api_key, calls, posted, upstream, returned,
          used_key, responses>>

-----------------------------------------------------------------------------
(* Bounds of the checked instances *)

\* upstream routes offered: segment k lasts 30*k seconds over 500*k metres
MaxRoute == 60
\* upstream emission estimates offered: 1000*j grams
MaxCarbon == 2
\* requests handled concurrently under SpecConc
NumConcurrent == 2

-----------------------------------------------------------------------------
(* Python values *)

None == [py |-> "None"]
Str(s) == [py |-> "str", s |-> s]
List(items) == [py |-> "list", items |-> items]
EmptyDict == [k \in {} |-> None]
\* marks a key left out of a JSON object while the request bodies are built
Absent == [py |-> "absent"]

\* what an expression yields when evaluating it raises
Raised == [py |-> "raise"]

IsDict(v) == "py" \notin DOMAIN v

\* bool(v) for the values the handler tests: None, '' and [] are falsy
Truthy(v) == v \notin {None, Str(""), List(<<>>)}

\* dict.get(key, default)
DictGet(d, key, default) == IF key \in DOMAIN d THEN d[key] ELSE default

\* round(n / d) for integers n >= 0, d > 0: Python 3 rounds halves to even
Round(n, d) ==
    LET q == n \div d
        r == n % d
    IN  IF 2 * r > d \/ (2 * r = d /\ q % 2 = 1) THEN q + 1 ELSE q

\* str.strip() on a text held as a sequence of tokens, " " the blank one
RECURSIVE LStrip(_)
LStrip(s) == IF s # <<>> /\ Head(s) = " " THEN LStrip(Tail(s)) ELSE s

RECURSIVE RStrip(_)
RStrip(s) ==
    IF s # <<>> /\ s[Len(s)] = " " THEN RStrip(SubSeq(s, 1, Len(s) - 1)) ELSE s

Strip(s) == RStrip(LStrip(s))

-----------------------------------------------------------------------------
(* Upstream replies.  raises: requests/openai raised instead of answering *)

Reply(status, json) == [raises |-> FALSE, status_code |-> status, json |-> json]
TransportError == [raises |-> TRUE, status_code |-> 0, json |-> None]

-----------------------------------------------------------------------------
(* Adapters, as functions of their arguments and of the upstream reply *)

get_energy_data(EIA_API_KEY, response) ==
    IF response.raises THEN None
    ELSE IF response.status_code = 200
         THEN LET data == response.json
              IN  IF ~IsDict(data) \/ "response" \notin DOMAIN data
                     \/ data.response.data = <<>>
                  THEN None                      \* KeyError / IndexError
                  ELSE LET latest_data == data.response.data[1]
                       IN  [price_per_gallon |-> latest_data.value,
                            period |-> latest_data.period]
         ELSE None

\* any 2xx-like success accepted: the test of line 47 widened to 200
calculate_emissions_Accepting200(distance_km, CARBON_INTERFACE_API_KEY, response) ==
    IF response.raises THEN None
    ELSE IF response.status_code \in {200, 201}
         THEN LET emissions_data == response.json
              IN  IF ~IsDict(emissions_data) \/ "data" \notin DOMAIN emissions_data
                  THEN None
                  ELSE [carbon_g |-> emissions_data.data.attributes.carbon_g,
                        carbon_kg |-> emissions_data.data.attributes.carbon_g * 10]
         ELSE None

calculate_emissions(distance_km, CARBON_INTERFACE_API_KEY, response) ==
    IF response.raises THEN None
    ELSE IF response.status_code = 201
         THEN LET emissions_data == response.json
              IN  IF ~IsDict(emissions_data) \/ "data" \notin DOMAIN emissions_data
                  THEN None                      \* KeyError / TypeError
                  ELSE [carbon_g |-> emissions_data.data.attributes.carbon_g,
                        carbon_kg |-> emissions_data.data.attributes.carbon_g * 10]
         ELSE None

get_weather_data(location, WEATHER_API_KEY, response) ==
    IF response.raises THEN None
    ELSE IF response.status_code = 200
         THEN LET weather_data == response.json
              IN  IF ~IsDict(weather_data) \/ "main" \notin DOMAIN weather_data
                     \/ weather_data.weather = <<>>
                  THEN None                      \* KeyError / IndexError
                  ELSE [temperature |-> weather_data.main.temp,
                        weather |-> weather_data.weather[1].description,
                        wind_speed |-> weather_data.wind.speed]
         ELSE None

\* the pair passed on as it came
SwapAxes_Identity(c) == <<c[1], c[2]>>

\* [c[1], c[0]] of a Python list c
SwapAxes(c) == <<c[2], c[1]>>

\* the instructions of the steps that carry one, in order
RECURSIVE Instructions(_)
Instructions(steps) ==
    IF steps = <<>> THEN <<>>
    ELSE (IF "instruction" \in DOMAIN Head(steps)
          THEN <<Head(steps).instruction>> ELSE <<>>)
         \o Instructions(Tail(steps))

RECURSIVE SegmentDirections(_)
SegmentDirections(segments) ==
    IF segments = <<>> THEN <<>>
    ELSE Instructions(DictGet(Head(segments), "steps", <<>>))
         \o SegmentDirections(Tail(segments))

\* the JSON body posted to the routing service
ors_payload(origin_coords, destination_coords) ==
    [coordinates |-> <<SwapAxes(origin_coords.items),
                       SwapAxes(destination_coords.items)>>,
     profile |-> "driving-car"]

\* lines 84-85 index both coordinates before anything is posted
RoutePosted(origin_coords, destination_coords) ==
    /\ origin_coords.py = "list" /\ Len(origin_coords.items) >= 2
    /\ destination_coords.py = "list" /\ Len(destination_coords.items) >= 2

\* lines 84-85 placed outside the try block
get_eco_route_Unguarded(origin_coords, destination_coords, OPENROUTESERVICE_API_KEY, response) ==
    IF ~RoutePosted(origin_coords, destination_coords)
    THEN Raised
    ELSE IF response.raises THEN None
    ELSE IF response.status_code # 200 THEN None
    ELSE LET route_json == response.json
         IN  IF ~IsDict(route_json) THEN None    \* TypeError
             ELSE IF "features" \in DOMAIN route_json /\ route_json.features # <<>>
             THEN LET route_feature == route_json.features[1]
                      coords == route_feature.geometry.coordinates
                      properties == route_feature.properties
                  IN  IF "segments" \notin DOMAIN properties
                         \/ properties.segments = <<>>
                      THEN None                  \* KeyError / IndexError
                      ELSE [distance_km |-> properties.segments[1].distance \div 100,
                            duration_minutes |-> Round(properties.segments[1].duration, 60),
                            coordinates |-> [i \in 1..Len(coords) |-> SwapAxes(coords[i])],
                            directions |-> SegmentDirections(properties.segments)]
             ELSE None

get_eco_route(origin_coords, destination_coords, OPENROUTESERVICE_API_KEY, response) ==
    IF ~RoutePosted(origin_coords, destination_coords)
    THEN None                                    \* IndexError / TypeError
    ELSE IF response.raises THEN None
    ELSE IF response.status_code # 200 THEN None
    ELSE LET route_json == response.json
         IN  IF ~IsDict(route_json) THEN None    \* TypeError
             ELSE IF "features" \in DOMAIN route_json /\ route_json.features # <<>>
             THEN LET route_feature == route_json.features[1]
                      coords == route_feature.geometry.coordinates
                      properties == route_feature.properties
                  IN  IF "segments" \notin DOMAIN properties
                         \/ properties.segments = <<>>
                      THEN None                  \* KeyError / IndexError
                      ELSE [distance_km |-> properties.segments[1].distance \div 100,
                            duration_minutes |-> Round(properties.segments[1].duration, 60),
                            coordinates |-> [i \in 1..Len(coords) |-> SwapAxes(coords[i])],
                            directions |-> SegmentDirections(properties.segments)]
             ELSE None

\* int() in place of round(): the duration is truncated
simulate_optimized_route_Truncating(rd) ==
    [optimized_distance_km |-> rd.distance_km,
     optimized_duration_minutes |-> (rd.duration_minutes * 95) \div 100,
     optimized_carbon_emissions |->
         [carbon_kg |-> (rd.emissions.carbon_kg * 9) \div 10]]

\* the emissions copied without the 0.9 factor
simulate_optimized_route_NoEmissionCut(rd) ==
    [optimized_distance_km |-> rd.distance_km,
     optimized_duration_minutes |-> Round(rd.duration_minutes * 95, 100),
     optimized_carbon_emissions |-> [carbon_kg |-> rd.emissions.carbon_kg]]

\* the 0.95 factor applied to the distance as well
simulate_optimized_route_ShorterDistance(rd) ==
    [optimized_distance_km |-> (rd.distance_km * 95) \div 100,
     optimized_duration_minutes |-> Round(rd.duration_minutes * 95, 100),
     optimized_carbon_emissions |->
         [carbon_kg |-> (rd.emissions.carbon_kg * 9) \div 10]]

simulate_optimized_route(rd) ==
    [optimized_distance_km |-> rd.distance_km,
     optimized_duration_minutes |-> Round(rd.duration_minutes * 95, 100),
     optimized_carbon_emissions |->
         [carbon_kg |-> (rd.emissions.carbon_kg * 9) \div 10]]

\* lines 229-233 and 234-238: the conditions used when a lookup fails
weather_origin_default == [temperature |-> 20, weather |-> "clear", wind_speed |-> 5]
weather_destination_default == [temperature |-> 25, weather |-> "clear", wind_speed |-> 5]

\* lines 244-247: the estimate used when calculate_emissions fails
emissions_fallback(distance_km) ==
    [carbon_g |-> distance_km * 231,
     carbon_kg |-> distance_km * 2310]

\* the f-string of generate_openai_prompt, as the record of the values it embeds
generate_openai_prompt(rd, ed, ce, wo, wd, vehicle) ==
    IF ~IsDict(vehicle) \/ {"type", "efficiency", "fuel_type"} \ DOMAIN vehicle # {}
    THEN Raised                                  \* TypeError / KeyError
    ELSE [distance_km |-> rd.distance_km,
          duration_minutes |-> rd.duration_minutes,
          price_per_gallon |-> ed.price_per_gallon,
          carbon_kg_2f |-> Round(ce.carbon_kg, 100),
          weather_origin |-> wo,
          weather_destination |-> wd,
          vehicle_type |-> vehicle["type"],
          efficiency |-> vehicle["efficiency"],
          fuel_type |-> vehicle["fuel_type"]]

Text(tokens) == [py |-> "text", tokens |-> tokens]

\* line 190
FailedRecommendation == Text(<<"Failed to generate recommendation.">>)

\* an except branch that returns the empty text
get_openai_recommendation_Empty(p, OPENAI_API_KEY, response) ==
    IF response.raises THEN Text(<<>>)
    ELSE IF ~IsDict(response.json) \/ "choices" \notin DOMAIN response.json
            \/ response.json.choices = <<>>
         THEN Text(<<>>)
         ELSE Text(Strip(response.json.choices[1].message.content))

\* lines 172-190, given the reply of ChatCompletion.create
get_openai_recommendation(p, OPENAI_API_KEY, response) ==
    IF response.raises THEN FailedRecommendation
    ELSE IF ~IsDict(response.json) \/ "choices" \notin DOMAIN response.json
            \/ response.json.choices = <<>>
         THEN FailedRecommendation               \* KeyError / IndexError
         ELSE Text(Strip(response.json.choices[1].message.content))

\* lines 260-271
comparison(rd, ce, opt) ==
    [original |-> [distance_km |-> rd.distance_km,
                   duration_minutes |-> rd.duration_minutes,
                   carbon_emissions_kg |-> ce.carbon_kg],
     optimized |-> [distance_km |-> opt.optimized_distance_km,
                    duration_minutes |-> opt.optimized_duration_minutes,
                    carbon_emissions_kg |-> opt.optimized_carbon_emissions.carbon_kg]]

\* the responses of the handler
ErrorResponse(status, message) == [status |-> status, body |-> [error |-> message]]

SuccessResponse(rd, cmp, rec) ==
    [status |-> 200,
     body |-> [route |-> rd.coordinates,
               directions |-> rd.directions,
               comparison |-> cmp,
               recommendation |-> rec]]

\* line 211: not all([...five keys...])
KeysMissing(keys) == \E i \in 1..Len(keys) : ~Truthy(keys[i])

\* line 214: not (origin_coords and destination_coords)
CoordsMissing(origin_coords, destination_coords) ==
    ~(Truthy(origin_coords) /\ Truthy(destination_coords))

\* a handler that goes on after a failed route
RouteUnavailable_Ignored(rd) == FALSE

\* line 219: not route_data
RouteUnavailable(rd) == ~Truthy(rd)

\* a handler that goes on after a failed price lookup
EnergyDataUnavailable_Ignored(ed) == FALSE

\* line 224: not energy_data
EnergyDataUnavailable(ed) == ~Truthy(ed)

\* d[key] = value
DictSet(d, key, value) ==
    [k \in DOMAIN d \cup {key} |-> IF k = key THEN value ELSE d[k]]

-----------------------------------------------------------------------------
(* Requests: the JSON bodies a client may post *)

KeyNames == <<"EIA_API_KEY", "CARBON_INTERFACE_API_KEY", "WEATHER_API_KEY",
              "OPENROUTESERVICE_API_KEY", "OPENAI_API_KEY">>

KeyNameSet == {KeyNames[i] : i \in 1..Len(KeyNames)}

\* the credential string client r holds for the service named name
KeyValue(name, r) == Str(name \o "#" \o ToString(r))

\* a JSON object holding the fields of f that are not Absent
MkDict(f) == [k \in {x \in DOMAIN f : f[x] # Absent} |-> f[k]]

ApiKeyDicts(r) ==
    {MkDict([name \in KeyNameSet |->
                CASE c[name] = "absent" -> Absent
                  [] c[name] = "empty" -> Str("")
                  [] OTHER -> KeyValue(name, r)]) :
        c \in [KeyNameSet -> {"absent", "empty", "set"}]}

AllKeys(r) == [name \in KeyNameSet |-> KeyValue(name, r)]

OriginChoices == {Absent, List(<<>>), List(<<37>>), List(<<37, -122>>)}
DestinationChoices == {Absent, List(<<>>), List(<<34>>), List(<<34, -118>>)}

FullVehicle == [type |-> Str("sedan"), efficiency |-> 15, fuel_type |-> Str("gasoline")]

VehicleChoices ==
    {Absent, FullVehicle}
    \cup {[k \in DOMAIN FullVehicle \ {m} |-> FullVehicle[k]] : m \in DOMAIN FullVehicle}

MkBody(o, d, v, a) ==
    MkDict([k \in {"origin_coords", "destination_coords", "vehicle", "api_keys"} |->
               CASE k = "origin_coords" -> o
                 [] k = "destination_coords" -> d
                 [] k = "vehicle" -> v
                 [] OTHER -> a])

\* the JSON objects posted: each field left out or present, api_keys left
\* out, null, or an object holding any mix of the five credentials
RequestBodies(r) ==
    {MkBody(o, d, v, a) : o \in OriginChoices, d \in DestinationChoices,
                          v \in VehicleChoices,
                          a \in {Absent, None} \cup ApiKeyDicts(r)}

ValidBody(r) == MkBody(List(<<37, -122>>), List(<<34, -118>>), FullVehicle, AllKeys(r))

-----------------------------------------------------------------------------
(* Upstream services: the replies each may give *)

RouteFeature(distance, duration) ==
    [geometry |-> [coordinates |-> << <<-122, 37>>, <<-120, 36>>, <<-118, 34>> >>],
     properties |->
        [segments |-> << [distance |-> distance, duration |-> duration,
                          steps |-> << [instruction |-> "Head south"],
                                       [name |-> "-"],
                                       [instruction |-> "Arrive"] >>] >>]]

RouteFailures ==
    {TransportError, Reply(404, None), Reply(200, [features |-> <<>>]),
     Reply(200, [error |-> "x"]),
     Reply(200, [features |-> << [geometry |-> [coordinates |-> <<>>],
                                   properties |-> [summary |-> 0]] >>])}

\* 559.0 km in 300 minutes, and k half-kilometres in k half-minutes
RouteReplies ==
    RouteFailures
    \cup {Reply(200, [features |-> <<RouteFeature(559000, 18000)>>])}
    \cup {Reply(200, [features |-> <<RouteFeature(500 * k, 30 * k)>>]) : k \in 1..MaxRoute}

EnergyOk == Reply(200, [response |-> [data |-> << [value |-> 389, period |-> "2024-01-01"] >>]])

EnergyReplies ==
    {TransportError, Reply(500, None), Reply(200, [response |-> [data |-> <<>>]]), EnergyOk}

WeatherOk(location) ==
    Reply(200, [main |-> [temp |-> IF location = "San Francisco" THEN 15 ELSE 30],
                weather |-> << [description |-> "fog"] >>,
                wind |-> [speed |-> 3]])

WeatherReplies(location) ==
    {TransportError, Reply(404, None), Reply(200, [cod |-> 200]), WeatherOk(location)}

EmissionsOk(grams) == Reply(201, [data |-> [attributes |-> [carbon_g |-> grams]]])

EmissionsReplies ==
    {TransportError, Reply(200, [data |-> [attributes |-> [carbon_g |-> 50000]]]),
     Reply(401, None), Reply(201, [message |-> "x"]), EmissionsOk(50000)}
    \cup {EmissionsOk(1000 * j) : j \in 1..MaxCarbon}

ChatOk == Reply(200, [choices |-> << [message |-> [content |-> <<" ", "Keep a steady speed.", " ">>]] >>])

ChatReplies == {TransportError, Reply(200, [choices |-> <<>>]), ChatOk}

-----------------------------------------------------------------------------
(* The handler get_route_recommendation, one action per step between its    *)
(* upstream calls.  pc[r] names the step request r is about to take.        *)

Adapters == {"route", "energy", "weather_origin", "weather_destination",
             "emissions", "recommendation"}

Requests == DOMAIN pc

\* lines 198-208: the locals read off the request body
origin_coords(r) == DictGet(req[r], "origin_coords", None)
destination_coords(r) == DictGet(req[r], "destination_coords", None)
vehicle(r) == DictGet(req[r], "vehicle", None)
api_keys(r) == DictGet(req[r], "api_keys", EmptyDict)
ApiKey(r, name) == DictGet(api_keys(r), name, None)

\* return jsonify(...), status
Return(r, response) ==
    /\ responses' = [responses EXCEPT ![r] = Append(@, response)]
    /\ pc' = [pc EXCEPT ![r] = "done"]

\* lines 279-281: any exception raised in the handler
InternalError(r) == Return(r, ErrorResponse(500, "Internal server error"))

Goto(r, label) ==
    /\ pc' = [pc EXCEPT ![r] = label]
    /\ UNCHANGED responses

\* lines 13-17, 35-45, 62-65, 84-95 and 173-186: what the adapter sends to
\* its service when request r calls it now; None when nothing is sent
Payload(r, adapter) ==
    CASE adapter = "route" ->
             IF RoutePosted(origin_coords(r), destination_coords(r))
             THEN [headers |-> [Authorization |-> ApiKey(r, "OPENROUTESERVICE_API_KEY")],
                   json |-> ors_payload(origin_coords(r), destination_coords(r))]
             ELSE None
      [] adapter = "energy" -> [api_key |-> ApiKey(r, "EIA_API_KEY")]
      [] adapter = "weather_origin" ->
             [q |-> "San Francisco", appid |-> ApiKey(r, "WEATHER_API_KEY"),
              units |-> "metric"]
      [] adapter = "weather_destination" ->
             [q |-> "Los Angeles", appid |-> ApiKey(r, "WEATHER_API_KEY"),
              units |-> "metric"]
      [] adapter = "emissions" ->
             [headers |-> [Authorization |-> ApiKey(r, "CARBON_INTERFACE_API_KEY")],
              json |-> [type |-> "vehicle", distance_unit |-> "km",
                        distance_value |-> route_data[r].distance_km]]
      [] OTHER -> [model |-> "gpt-4", user_content |-> prompt[r]]

\* an adapter was called, the service gave response and the adapter result
Called(r, adapter, response, result) ==
    /\ calls' = [calls EXCEPT ![r][adapter] = @ + 1]
    /\ posted' = [posted EXCEPT ![r][adapter] = Payload(r, adapter)]
    /\ upstream' = [upstream EXCEPT ![r][adapter] = response]
    /\ returned' = [returned EXCEPT ![r][adapter] = result]

\* lines 195-215
Receive(r) ==
    /\ r \in Requests
    /\ pc[r] = "start"
    /\ IF ~IsDict(api_keys(r)) THEN InternalError(r)  \* api_keys.get: AttributeError
       ELSE IF KeysMissing([i \in 1..Len(KeyNames) |-> ApiKey(r, KeyNames[i])])
            THEN Return(r, ErrorResponse(400, "All five API keys are required."))
       ELSE IF CoordsMissing(origin_coords(r), destination_coords(r))
            THEN Return(r, ErrorResponse(400,
                     "Both origin_coords and destination_coords must be provided."))
       ELSE Goto(r, "route")
    /\ UNCHANGED <<req, route_data, energy_data, weather_origin,
                   weather_destination, carbon_emissions, optimized_route,
                   prompt, recommendation, openai_api_key, calls, posted, upstream,
                   returned, used_key>>

\* lines 218-220, and 279-281 should the call raise
CallRoute(r, response) ==
    /\ r \in Requests
    /\ pc[r] = "route"
    /\ LET result == get_eco_route(origin_coords(r), destination_coords(r),
                                   ApiKey(r, "OPENROUTESERVICE_API_KEY"), response)
       IN  /\ Called(r, "route",
                  IF RoutePosted(origin_coords(r), destination_coords(r))
                  THEN response ELSE None, result)
           /\ route_data' = [route_data EXCEPT ![r] = result]
           /\ IF result = Raised THEN InternalError(r)   \* lines 279-281
              ELSE IF RouteUnavailable(result)
              THEN Return(r, ErrorResponse(400,
                       "Unable to calculate route with provided coordinates."))
              ELSE Goto(r, "energy")
    /\ UNCHANGED <<req, energy_data, weather_origin, weather_destination,
                   carbon_emissions, optimized_route, prompt, recommendation,
                   openai_api_key, used_key>>

\* lines 223-226
CallEnergy(r, response) ==
    /\ r \in Requests
    /\ pc[r] = "energy"
    /\ LET result == get_energy_data(ApiKey(r, "EIA_API_KEY"), response)
       IN  /\ Called(r, "energy", response, result)
           /\ energy_data' = [energy_data EXCEPT ![r] = result]
           /\ IF EnergyDataUnavailable(result)
              THEN Return(r, ErrorResponse(400,
                       "Unable to retrieve energy data from EIA API."))
              ELSE Goto(r, "weather_origin")
    /\ UNCHANGED <<req, route_data, weather_origin, weather_destination,
                   carbon_emissions, optimized_route, prompt, recommendation,
                   openai_api_key, used_key>>

\* x or default
Or(x, default) == IF Truthy(x) THEN x ELSE default

\* a handler that repeats the origin lookup until it succeeds
CallWeatherOrigin_Retrying(r, response) ==
    /\ r \in Requests
    /\ pc[r] = "weather_origin"
    /\ LET result == get_weather_data("San Francisco", ApiKey(r, "WEATHER_API_KEY"), response)
       IN  /\ Called(r, "weather_origin", response, result)
           /\ weather_origin' = [weather_origin EXCEPT ![r] = Or(result, weather_origin_default)]
           /\ Goto(r, IF Truthy(result) THEN "weather_destination" ELSE "weather_origin")
    /\ UNCHANGED <<req, route_data, energy_data, weather_destination,
                   carbon_emissions, optimized_route, prompt, recommendation,
                   openai_api_key, used_key>>

\* lines 229-233
CallWeatherOrigin(r, response) ==
    /\ r \in Requests
    /\ pc[r] = "weather_origin"
    /\ LET result == get_weather_data("San Francisco", ApiKey(r, "WEATHER_API_KEY"), response)
       IN  /\ Called(r, "weather_origin", response, result)
           /\ weather_origin' = [weather_origin EXCEPT ![r] = Or(result, weather_origin_default)]
    /\ Goto(r, "weather_destination")
    /\ UNCHANGED <<req, route_data, energy_data, weather_destination,
                   carbon_emissions, optimized_route, prompt, recommendation,
                   openai_api_key, used_key>>

\* lines 234-238
CallWeatherDestination(r, response) ==
    /\ r \in Requests
    /\ pc[r] = "weather_destination"
    /\ LET result == get_weather_data("Los Angeles", ApiKey(r, "WEATHER_API_KEY"), response)
       IN  /\ Called(r, "weather_destination", response, result)
           /\ weather_destination' =
                 [weather_destination EXCEPT ![r] = Or(result, weather_destination_default)]
    /\ Goto(r, "emissions")
    /\ UNCHANGED <<req, route_data, energy_data, weather_origin,
                   carbon_emissions, optimized_route, prompt, recommendation,
                   openai_api_key, used_key>>

\* the handler without line 249: the emissions are never attached
CallEmissions_NoAttach(r, response) ==
    /\ r \in Requests
    /\ pc[r] = "emissions"
    /\ LET result == calculate_emissions(route_data[r].distance_km,
                                         ApiKey(r, "CARBON_INTERFACE_API_KEY"), response)
           ce == IF Truthy(result) THEN result
                 ELSE emissions_fallback(route_data[r].distance_km)
       IN  /\ Called(r, "emissions", response, result)
           /\ carbon_emissions' = [carbon_emissions EXCEPT ![r] = ce]
    /\ Goto(r, "optimize")
    /\ UNCHANGED <<req, route_data, energy_data, weather_origin,
                   weather_destination, optimized_route, prompt,
                   recommendation, openai_api_key, used_key>>

\* lines 241-249
CallEmissions(r, response) ==
    /\ r \in Requests
    /\ pc[r] = "emissions"
    /\ LET result == calculate_emissions(route_data[r].distance_km,
                                         ApiKey(r, "CARBON_INTERFACE_API_KEY"), response)
           ce == IF Truthy(result) THEN result
                 ELSE emissions_fallback(route_data[r].distance_km)
       IN  /\ Called(r, "emissions", response, result)
           /\ carbon_emissions' = [carbon_emissions EXCEPT ![r] = ce]
           /\ route_data' = [route_data EXCEPT ![r] = DictSet(@, "emissions", ce)]
    /\ Goto(r, "optimize")
    /\ UNCHANGED <<req, energy_data, weather_origin, weather_destination,
                   optimized_route, prompt, recommendation, openai_api_key,
                   used_key>>

\* line 252
SimulateOptimized(r) ==
    /\ r \in Requests
    /\ pc[r] = "optimize"
    /\ optimized_route' = [optimized_route EXCEPT ![r] = simulate_optimized_route(route_data[r])]
    /\ Goto(r, "prompt")
    /\ UNCHANGED <<req, route_data, energy_data, weather_origin,
                   weather_destination, carbon_emissions, prompt,
                   recommendation, openai_api_key, calls, posted, upstream, returned,
                   used_key>>

\* lines 255-256
BuildPrompt(r) ==
    /\ r \in Requests
    /\ pc[r] = "prompt"
    /\ LET p == generate_openai_prompt(route_data[r], energy_data[r], carbon_emissions[r],
                                       weather_origin[r], weather_destination[r], vehicle(r))
       IN  IF p = Raised
           THEN InternalError(r) /\ UNCHANGED prompt
           ELSE Goto(r, "set_key") /\ prompt' = [prompt EXCEPT ![r] = p]
    /\ UNCHANGED <<req, route_data, energy_data, weather_origin,
                   weather_destination, carbon_emissions, optimized_route,
                   recommendation, openai_api_key, calls, posted, upstream, returned,
                   used_key>>

\* line 171: the module attribute openai.api_key, shared by every request
SetOpenAIKey(r) ==
    /\ r \in Requests
    /\ pc[r] = "set_key"
    /\ openai_api_key' = ApiKey(r, "OPENAI_API_KEY")
    /\ Goto(r, "create")
    /\ UNCHANGED <<req, route_data, energy_data, weather_origin,
                   weather_destination, carbon_emissions, optimized_route,
                   prompt, recommendation, calls, posted, upstream, returned,
                   used_key>>

\* lines 172-190: ChatCompletion.create sends the key openai.api_key holds
\* when the call is made
CallOpenAI(r, response) ==
    /\ r \in Requests
    /\ pc[r] = "create"
    /\ used_key' = [used_key EXCEPT ![r] = openai_api_key]
    /\ LET result == get_openai_recommendation(prompt[r], ApiKey(r, "OPENAI_API_KEY"), response)
       IN  /\ Called(r, "recommendation", response, result)
           /\ recommendation' = [recommendation EXCEPT ![r] = result]
    /\ Goto(r, "assemble")
    /\ UNCHANGED <<req, route_data, energy_data, weather_origin,
                   weather_destination, carbon_emissions, optimized_route,
                   prompt, openai_api_key>>

\* lines 259-278
Assemble(r) ==
    /\ r \in Requests
    /\ pc[r] = "assemble"
    /\ Return(r, SuccessResponse(route_data[r],
                                 comparison(route_data[r], carbon_emissions[r],
                                            optimized_route[r]),
                                 recommendation[r]))
    /\ UNCHANGED <<req, route_data, energy_data, weather_origin,
                   weather_destination, carbon_emissions, optimized_route,
                   prompt, recommendation, openai_api_key, calls, posted, upstream,
                   returned, used_key>>

-----------------------------------------------------------------------------
(* Specifications *)

\* the state of the process once the request bodies have arrived
Start(bodies) ==
    /\ req = bodies
    /\ pc = [r \in DOMAIN bodies |-> "start"]
    /\ route_data = [r \in DOMAIN bodies |-> None]
    /\ energy_data = [r \in DOMAIN bodies |-> None]
    /\ weather_origin = [r \in DOMAIN bodies |-> None]
    /\ weather_destination = [r \in DOMAIN bodies |-> None]
    /\ carbon_emissions = [r \in DOMAIN bodies |-> None]
    /\ optimized_route = [r \in DOMAIN bodies |-> None]
    /\ prompt = [r \in DOMAIN bodies |-> None]
    /\ recommendation = [r \in DOMAIN bodies |-> None]
    /\ openai_api_key = None
    /\ calls = [r \in DOMAIN bodies |-> [a \in Adapters |-> 0]]
    /\ posted = [r \in DOMAIN bodies |-> [a \in Adapters |-> None]]
    /\ upstream = [r \in DOMAIN bodies |-> [a \in Adapters |-> None]]
    /\ returned = [r \in DOMAIN bodies |-> [a \in Adapters |-> None]]
    /\ used_key = [r \in DOMAIN bodies |-> None]
    /\ responses = [r \in DOMAIN bodies |-> <<>>]

\* one request, with any body
Init == \E body \in RequestBodies(1) : Start([r \in {1} |-> body])

Next ==
    \E r \in 1..NumConcurrent :
        \/ Receive(r)
        \/ \E response \in RouteReplies : CallRoute(r, response)
        \/ \E response \in EnergyReplies : CallEnergy(r, response)
        \/ \E response \in WeatherReplies("San Francisco") : CallWeatherOrigin(r, response)
        \/ \E response \in WeatherReplies("Los Angeles") : CallWeatherDestination(r, response)
        \/ \E response \in EmissionsReplies : CallEmissions(r, response)
        \/ SimulateOptimized(r)
        \/ BuildPrompt(r)
        \/ SetOpenAIKey(r)
        \/ \E response \in ChatReplies : CallOpenAI(r, response)
        \/ Assemble(r)

Spec == Init /\ [][Next]_vars

\* NumConcurrent well-formed requests of different clients, handled by the
\* threads of one server process; each service answers or fails
InitConc == Start([r \in 1..NumConcurrent |-> ValidBody(r)])

NextConc ==
    \E r \in 1..NumConcurrent :
        \/ Receive(r)
        \/ \E response \in {TransportError, Reply(200, [features |-> <<RouteFeature(559000, 18000)>>])} :
               CallRoute(r, response)
        \/ \E response \in {TransportError, EnergyOk} : CallEnergy(r, response)
        \/ CallWeatherOrigin(r, WeatherOk("San Francisco"))
        \/ CallWeatherDestination(r, WeatherOk("Los Angeles"))
        \/ \E response \in {TransportError, EmissionsOk(50000)} : CallEmissions(r, response)
        \/ SimulateOptimized(r)
        \/ BuildPrompt(r)
        \/ SetOpenAIKey(r)
        \/ \E response \in {TransportError, ChatOk} : CallOpenAI(r, response)
        \/ Assemble(r)

SpecConc == InitConc /\ [][NextConc]_vars

\* what a service that never answers leaves behind
NoAnswer == [raises |-> FALSE, status_code |-> 0, json |-> None]

\* the steps that wait in requests.get / requests.post (lines 18, 46, 66,
\* 98): no timeout argument is passed and requests applies none
BlockingCalls == {"route", "energy", "weather_origin", "weather_destination",
                  "emissions"}

\* the service called at this step never answers: the call does not return
Hang(r) ==
    /\ r \in Requests
    /\ pc[r] \in BlockingCalls
    /\ pc[r] = "route" => RoutePosted(origin_coords(r), destination_coords(r))
    /\ calls' = [calls EXCEPT ![r][pc[r]] = @ + 1]
    /\ posted' = [posted EXCEPT ![r][pc[r]] = Payload(r, pc[r])]
    /\ upstream' = [upstream EXCEPT ![r][pc[r]] = NoAnswer]
    /\ pc' = [pc EXCEPT ![r] = "waiting"]
    /\ UNCHANGED <<req, route_data, energy_data, weather_origin,
                   weather_destination, carbon_emissions, optimized_route,
                   prompt, recommendation, openai_api_key, returned,
                   used_key, responses>>

\* one well-formed request; every service answers, fails or stays silent;
\* the serving thread keeps running whenever it can take a step
InitLive == Start([r \in {1} |-> ValidBody(r)])

NextLive == Next \/ \E r \in 1..NumConcurrent : Hang(r)

SpecLive == InitLive /\ [][NextLive]_vars /\ WF_vars(NextLive)

-----------------------------------------------------------------------------
(* Vocabulary of the properties *)

Finished(r) == pc[r] = "done"

\* the response of a finished request
Response(r) == responses[r][1]

\* adapter was called for request r and returned its failure value
Failed(r, adapter) == calls[r][adapter] > 0 /\ returned[r][adapter] = None

\* adapter was called for request r and returned a result
Succeeded(r, adapter) == calls[r][adapter] > 0 /\ returned[r][adapter] # None

NoCalls(r, adapters) == \A a \in adapters : calls[r][a] = 0

\* the request carries no usable value for one of the five credentials
CredentialMissing(r) == \E i \in 1..Len(KeyNames) : ~Truthy(ApiKey(r, KeyNames[i]))

\* the request carries no usable value for one of the two coordinates
CoordinateMissing(r) ==
    ~Truthy(origin_coords(r)) \/ ~Truthy(destination_coords(r))

\* the text-generation call of request r was made and gave no usable text
ChatFailed(r) ==
    /\ calls[r]["recommendation"] > 0
    /\ \/ upstream[r]["recommendation"].raises
       \/ "choices" \notin DOMAIN upstream[r]["recommendation"].json
       \/ upstream[r]["recommendation"].json.choices = <<>>

\* opt is round(orig * 0.95): the integer nearest to it, the even one of two
IsRound95(opt, orig) ==
    /\ 100 * opt - 95 * orig <= 50
    /\ 95 * orig - 100 * opt <= 50
    /\ (100 * opt - 95 * orig \in {50, -50}) => opt % 2 = 0

\* the kilograms (1/10000 kg) the comparison of request r must show as original
OriginalKg(r) ==
    IF returned[r]["emissions"] = None
    THEN 2310 * returned[r]["route"].distance_km
    ELSE returned[r]["emissions"].carbon_kg

\* cmp is fully populated from what the route and emissions adapters gave r
ComparisonOf(r, cmp) ==
    /\ DOMAIN cmp = {"original", "optimized"}
    /\ DOMAIN cmp.original = {"distance_km", "duration_minutes", "carbon_emissions_kg"}
    /\ DOMAIN cmp.optimized = {"distance_km", "duration_minutes", "carbon_emissions_kg"}
    /\ cmp.original.distance_km = returned[r]["route"].distance_km
    /\ cmp.original.duration_minutes = returned[r]["route"].duration_minutes
    /\ cmp.original.carbon_emissions_kg = OriginalKg(r)
    /\ cmp.optimized.distance_km = cmp.original.distance_km
    /\ IsRound95(cmp.optimized.duration_minutes, cmp.original.duration_minutes)
    /\ 10 * cmp.optimized.carbon_emissions_kg = 9 * cmp.original.carbon_emissions_kg

-----------------------------------------------------------------------------
(* Properties *)

\* C1: when get_eco_route fails, the request ends with the 400 route error
\* and no other adapter is ever invoked for it.
C1_RouteFailureAborts ==
    \A r \in Requests :
        Failed(r, "route") =>
            /\ Finished(r)
            /\ responses[r] = <<ErrorResponse(400,
                   "Unable to calculate route with provided coordinates.")>>
            /\ NoCalls(r, Adapters \ {"route"})

C1_Witness ==
    \E r \in Requests :
        /\ Failed(r, "route") /\ Finished(r)
        /\ upstream[r]["route"] = Reply(200, [features |-> <<>>])

\* C2: a request lacking any of the five credentials is answered with the
\* 400 validation error and no adapter is invoked, whatever else it carries.
C2_MissingCredentialIs400 ==
    \A r \in Requests :
        CredentialMissing(r) =>
            /\ NoCalls(r, Adapters)
            /\ Finished(r) => responses[r] =
                   <<ErrorResponse(400, "All five API keys are required.")>>

\* C3: when get_energy_data fails after a successful route, the request ends
\* with the 400 energy error, no price is substituted and weather, emissions
\* and recommendation are never invoked.
C3_EnergyFailureAborts ==
    \A r \in Requests :
        Failed(r, "energy") =>
            /\ Succeeded(r, "route")
            /\ Finished(r)
            /\ responses[r] = <<ErrorResponse(400,
                   "Unable to retrieve energy data from EIA API.")>>
            /\ energy_data[r] = None
            /\ prompt[r] = None
            /\ NoCalls(r, {"weather_origin", "weather_destination",
                           "emissions", "recommendation"})

C3_Witness ==
    \E r \in Requests :
        /\ Failed(r, "energy") /\ Finished(r)
        /\ upstream[r]["energy"] = Reply(200, [response |-> [data |-> <<>>]])

\* the conditions request r must use for a location, given its lookup
ConditionsUsed(r, adapter, default) ==
    IF returned[r][adapter] = None THEN default ELSE returned[r][adapter]

\* C4: once route and energy succeeded, a failed weather lookup never aborts:
\* the response succeeds, the failed location gets its documented default,
\* the other location keeps its own result, and the prompt embeds exactly
\* these conditions.
C4_WeatherFailureNeverAborts ==
    \A r \in Requests :
        Succeeded(r, "energy") =>
            /\ calls[r]["weather_origin"] > 0 =>
                   weather_origin[r] = ConditionsUsed(r, "weather_origin",
                       [temperature |-> 20, weather |-> "clear", wind_speed |-> 5])
            /\ calls[r]["weather_destination"] > 0 =>
                   weather_destination[r] = ConditionsUsed(r, "weather_destination",
                       [temperature |-> 25, weather |-> "clear", wind_speed |-> 5])
            /\ prompt[r] # None =>
                   /\ prompt[r].weather_origin = weather_origin[r]
                   /\ prompt[r].weather_destination = weather_destination[r]
            /\ (Finished(r) /\ (Failed(r, "weather_origin") \/ Failed(r, "weather_destination")))
                   => Response(r).status = 200

\* C5: once route and energy succeeded, a failed calculate_emissions does not
\* abort: the emissions become distance_km * 2.31 kg, 1000 times that in
\* grams, and the comparison's original branch carries exactly that value.
C5_EmissionsFallback ==
    \A r \in Requests :
        Failed(r, "emissions") =>
            /\ carbon_emissions[r].carbon_kg = 2310 * returned[r]["route"].distance_km
            /\ 10 * carbon_emissions[r].carbon_g = carbon_emissions[r].carbon_kg
            /\ Finished(r) =>
                   /\ Response(r).status = 200
                   /\ Response(r).body.comparison.original.carbon_emissions_kg
                          = 2310 * returned[r]["route"].distance_km

\* C6: in every success response the optimized duration is
\* round(original duration * 0.95) and the optimized kilograms are the
\* original kilograms * 0.9, both taken from the same comparison
\* (300 minutes give 285, 50.0 kg give 45.0 kg).
C6_OptimizedFromOriginal ==
    \A r \in Requests :
        (Finished(r) /\ Response(r).status = 200) =>
            LET cmp == Response(r).body.comparison
            IN  /\ IsRound95(cmp.optimized.duration_minutes, cmp.original.duration_minutes)
                /\ 10 * cmp.optimized.carbon_emissions_kg = 9 * cmp.original.carbon_emissions_kg
                /\ cmp.original.duration_minutes = 300 => cmp.optimized.duration_minutes = 285
                /\ cmp.original.carbon_emissions_kg = 500000 =>
                       cmp.optimized.carbon_emissions_kg = 450000

C6_Witness ==
    \E r \in Requests :
        /\ Finished(r) /\ Response(r).status = 200
        /\ Response(r).body.comparison.original.duration_minutes = 30
        /\ Response(r).body.comparison.optimized.duration_minutes = 28
        /\ Response(r).body.comparison.original.carbon_emissions_kg > 0

\* C7: when the text-generation call fails, the response is still 200, its
\* recommendation is the fixed placeholder and its comparison is fully
\* populated from the route and emissions results alone.
C7_RecommendationFailureDegrades ==
    \A r \in Requests :
        ChatFailed(r) =>
            /\ recommendation[r] = Text(<<"Failed to generate recommendation.">>)
            /\ Finished(r) =>
                   /\ Len(responses[r]) = 1
                   /\ Response(r).status = 200
                   /\ Response(r).body.recommendation
                          = Text(<<"Failed to generate recommendation.">>)
                   /\ ComparisonOf(r, Response(r).body.comparison)

C7_Witness ==
    \E r \in Requests :
        /\ ChatFailed(r) /\ Finished(r)
        /\ upstream[r]["recommendation"].raises
        /\ Failed(r, "emissions")

\* C8: building the prompt and calling the recommendation adapter never
\* aborts: every request whose route and energy calls succeeded ends with a
\* success response, whatever vehicle profile it carries.
C8_PromptStepNeverAborts ==
    \A r \in Requests :
        (Succeeded(r, "energy") /\ Finished(r)) => Response(r).status = 200

\* C9: the text-generation call made for a request always carries that
\* request's own OPENAI_API_KEY, under every interleaving of the requests.
C9_OwnCredentialUsed ==
    \A r \in Requests :
        calls[r]["recommendation"] > 0 => used_key[r] = ApiKey(r, "OPENAI_API_KEY")

\* C10: a request ends with exactly one response; its status is 400 exactly
\* when a credential or coordinate is missing or the route or energy adapter
\* failed, 500 only for an exception in the handler and 200 otherwise; a 200
\* response carries route, directions, a full comparison and a
\* recommendation.
C10_StatusClassification ==
    \A r \in Requests :
        /\ Len(responses[r]) = (IF Finished(r) THEN 1 ELSE 0)
        /\ Finished(r) =>
               LET rejected == \/ CredentialMissing(r) \/ CoordinateMissing(r)
                               \/ Failed(r, "route") \/ Failed(r, "energy")
               IN  /\ Response(r).status \in {200, 400, 500}
                   /\ Response(r).status = 400 <=> rejected
                   /\ Response(r).status = 200 =>
                          /\ DOMAIN Response(r).body =
                                 {"route", "directions", "comparison", "recommendation"}
                          /\ Response(r).body.route = returned[r]["route"].coordinates
                          /\ Response(r).body.directions = returned[r]["route"].directions
                          /\ ComparisonOf(r, Response(r).body.comparison)
                          /\ Response(r).body.recommendation = returned[r]["recommendation"]


\* C11: every request is eventually answered, also when a service never
\* answers: each upstream call is bounded and a silent service counts as
\* that adapter's failure.
C11_EveryRequestAnswered == <>(\A r \in Requests : Finished(r))


\* C12: the optimized estimate always improves on the original: for every
\* positive duration it is strictly smaller and exactly 5% lower, and for
\* every positive kilograms value it is exactly 10% lower.
C12_AlwaysImproves ==
    \A r \in Requests :
        optimized_route[r] # None =>
            LET d == route_data[r].duration_minutes
                kg == route_data[r].emissions.carbon_kg
                opt == optimized_route[r]
            IN  /\ d > 0 => /\ opt.optimized_duration_minutes < d
                            /\ 100 * opt.optimized_duration_minutes = 95 * d
                /\ kg > 0 => 10 * opt.optimized_carbon_emissions.carbon_kg = 9 * kg

\* C12 as amended: the optimized duration is round(original * 0.95), halves
\* to even; it is never larger than the original, strictly smaller from 11
\* minutes on, and exactly 5% lower just when the original is a multiple of
\* 20; positive kilograms become exactly 10% lower.
C12_RoundedImprovement ==
    \A r \in Requests :
        optimized_route[r] # None =>
            LET d == route_data[r].duration_minutes
                kg == route_data[r].emissions.carbon_kg
                opt == optimized_route[r]
            IN  /\ d > 0 =>
                    /\ IsRound95(opt.optimized_duration_minutes, d)
                    /\ opt.optimized_duration_minutes <= d
                    /\ d >= 11 => opt.optimized_duration_minutes < d
                    /\ 100 * opt.optimized_duration_minutes = 95 * d <=> d % 20 = 0
                /\ kg > 0 =>
                    /\ 10 * opt.optimized_carbon_emissions.carbon_kg = 9 * kg
                    /\ opt.optimized_carbon_emissions.carbon_kg < kg

C12_Witness ==
    \E r \in Requests :
        /\ optimized_route[r] # None
        /\ route_data[r].duration_minutes = 10
        /\ optimized_route[r].optimized_duration_minutes = 10
        /\ route_data[r].emissions.carbon_kg > 0


\* the emissions value of request r is attached to its RouteResult
EmissionsAttached(r) ==
    /\ carbon_emissions[r] # None
    /\ "emissions" \in DOMAIN route_data[r]
    /\ route_data[r].emissions = carbon_emissions[r]

\* C13: the emissions adapter is invoked only after a successful route and
\* with that route's distance_km; the optimized estimate is computed only
\* once an emissions value is attached to the RouteResult; the
\* recommendation adapter is invoked only once route, energy price, both
\* weather conditions and emissions are available and embedded in its
\* prompt; after a failed route nothing downstream is computed.
C13_DependencyOrder ==
    \A r \in Requests :
        /\ calls[r]["emissions"] > 0 =>
               /\ Succeeded(r, "route")
               /\ posted[r]["emissions"].json.distance_value
                      = returned[r]["route"].distance_km
        /\ (pc[r] = "optimize" \/ optimized_route[r] # None) =>
               /\ calls[r]["emissions"] > 0
               /\ EmissionsAttached(r)
        /\ calls[r]["recommendation"] > 0 =>
               /\ Succeeded(r, "route") /\ Succeeded(r, "energy")
               /\ calls[r]["weather_origin"] > 0 /\ weather_origin[r] # None
               /\ calls[r]["weather_destination"] > 0 /\ weather_destination[r] # None
               /\ calls[r]["emissions"] > 0 /\ EmissionsAttached(r)
               /\ optimized_route[r] # None
               /\ LET p == posted[r]["recommendation"].user_content
                  IN  /\ p.distance_km = returned[r]["route"].distance_km
                      /\ p.duration_minutes = returned[r]["route"].duration_minutes
                      /\ p.price_per_gallon = returned[r]["energy"].price_per_gallon
                      /\ p.weather_origin = weather_origin[r]
                      /\ p.weather_destination = weather_destination[r]
                      /\ 100 * p.carbon_kg_2f - carbon_emissions[r].carbon_kg \in -50..50
        /\ Failed(r, "route") =>
               /\ carbon_emissions[r] = None
               /\ optimized_route[r] = None
               /\ prompt[r] = None

C13_Witness ==
    \E r \in Requests :
        /\ calls[r]["recommendation"] > 0
        /\ Failed(r, "emissions")
        /\ Failed(r, "weather_destination")
        /\ returned[r]["route"].distance_km = 5590


\* C14: within one request every adapter is invoked at most once (the
\* weather adapter once per location), whatever the outcomes: a failed call
\* is never issued again.
C14_SinglePass ==
    \A r \in Requests : \A a \in Adapters : calls[r][a] <= 1

C14_Witness ==
    \E r \in Requests :
        /\ Finished(r) /\ Response(r).status = 200
        /\ \A a \in Adapters : calls[r][a] = 1
        /\ Failed(r, "weather_origin") /\ Failed(r, "emissions")
        /\ ChatFailed(r)


\* C15: a request lacking origin_coords or destination_coords is rejected
\* with a 400 validation error before any adapter is invoked: with the
\* coordinates error when all five credentials are present, and likewise
\* with 400 when a credential is missing too.
C15_MissingCoordinateIs400 ==
    \A r \in Requests :
        CoordinateMissing(r) =>
            /\ NoCalls(r, Adapters)
            /\ Finished(r) =>
                   /\ Response(r).status = 400
                   /\ ~CredentialMissing(r) => responses[r] = <<ErrorResponse(400,
                          "Both origin_coords and destination_coords must be provided.")>>


\* C16: the later steps leave the resolved route unchanged: attaching the
\* emissions adds that one field to the RouteResult and alters no other,
\* and a success response carries the adapter's path, directions, distance
\* and duration, the same distance in the optimized branch, and as original
\* kilograms the emissions value attached to the RouteResult and embedded
\* (to two decimals) in the prompt.
C16_RouteUnchanged ==
    \A r \in Requests :
        /\ Succeeded(r, "route") =>
               /\ \A k \in DOMAIN returned[r]["route"] :
                      k \in DOMAIN route_data[r] /\ route_data[r][k] = returned[r]["route"][k]
               /\ DOMAIN route_data[r] \ DOMAIN returned[r]["route"] \subseteq {"emissions"}
        /\ (Finished(r) /\ Response(r).status = 200) =>
               LET body == Response(r).body
                   route == returned[r]["route"]
               IN  /\ body.route = route.coordinates
                   /\ body.directions = route.directions
                   /\ body.comparison.original.distance_km = route.distance_km
                   /\ body.comparison.original.duration_minutes = route.duration_minutes
                   /\ body.comparison.optimized.distance_km
                          = body.comparison.original.distance_km
                   /\ body.comparison.original.carbon_emissions_kg
                          = route_data[r].emissions.carbon_kg
                   /\ 100 * prompt[r].carbon_kg_2f
                          - body.comparison.original.carbon_emissions_kg \in -50..50

C16_Witness ==
    \E r \in Requests :
        /\ Finished(r) /\ Response(r).status = 200
        /\ Succeeded(r, "emissions")
        /\ Response(r).body.comparison.optimized.distance_km = 5590
        /\ Len(Response(r).body.route) = 3


\* C17: calculate_emissions reports success only for upstream status 201:
\* for every other status, 200 included, and for every transport error it
\* returns None, and the handler then uses the linear estimate
\* (distance_km * 2.31 kg) in place of whatever the upstream payload held.
C17_OnlyCreatedIsSuccess ==
    \A r \in Requests :
        calls[r]["emissions"] > 0 =>
            LET up == upstream[r]["emissions"]
                d == returned[r]["route"].distance_km
            IN  /\ Succeeded(r, "emissions") => (~up.raises /\ up.status_code = 201)
                /\ (up.raises \/ up.status_code # 201) =>
                       /\ Failed(r, "emissions")
                       /\ carbon_emissions[r] = [carbon_g |-> 231 * d, carbon_kg |-> 2310 * d]
                       /\ route_data[r].emissions = carbon_emissions[r]

C17_Witness ==
    \E r \in Requests :
        /\ Finished(r) /\ Response(r).status = 200
        /\ upstream[r]["emissions"] = Reply(200, [data |-> [attributes |-> [carbon_g |-> 50000]]])
        /\ Failed(r, "emissions")
        /\ Response(r).body.comparison.original.carbon_emissions_kg
               = 2310 * returned[r]["route"].distance_km
        /\ Response(r).body.comparison.original.carbon_emissions_kg # 500000

\* C18: the axis reordering happens inside get_eco_route only and is a round
\* trip: the caller's (lat, lon) pairs are posted as (lon, lat), every
\* upstream geometry point (lon, lat) comes back as (lat, lon) in the same
\* order and number, swapping a pair twice gives the pair back, and the
\* response path is the adapter's path as returned.
C18_AxisRoundTrip ==
    \A r \in Requests :
        /\ (calls[r]["route"] > 0 /\ posted[r]["route"] # None) =>
               LET o == origin_coords(r).items
                   d == destination_coords(r).items
                   sent == posted[r]["route"].json.coordinates
               IN  /\ sent = << <<o[2], o[1]>>, <<d[2], d[1]>> >>
                   /\ SwapAxes(sent[1]) = SubSeq(o, 1, 2)
                   /\ SwapAxes(sent[2]) = SubSeq(d, 1, 2)
        /\ Succeeded(r, "route") =>
               LET geo == upstream[r]["route"].json.features[1].geometry.coordinates
                   out == returned[r]["route"].coordinates
               IN  /\ Len(out) = Len(geo)
                   /\ \A i \in 1..Len(geo) :
                          /\ out[i] = <<geo[i][2], geo[i][1]>>
                          /\ SwapAxes(out[i]) = geo[i]
                   /\ route_data[r].coordinates = out
                   /\ (Finished(r) /\ Response(r).status = 200) => Response(r).body.route = out

C18_Witness ==
    \E r \in Requests :
        /\ Finished(r) /\ Response(r).status = 200
        /\ origin_coords(r) = List(<<37, -122>>)
        /\ posted[r]["route"].json.coordinates[1] = <<-122, 37>>
        /\ upstream[r]["route"].json.features[1].geometry.coordinates[1] = <<-122, 37>>
        /\ Response(r).body.route = << <<37, -122>>, <<36, -120>>, <<34, -118>> >>

\* the handler raised on its own account: api_keys was no object, or the
\* vehicle profile could not be formatted into the prompt
HandlerRaised(r) ==
    \/ ~IsDict(api_keys(r))
    \/ calls[r]["emissions"] > 0 /\ prompt[r] = None

\* C19: no adapter lets an exception reach the handler: the four data
\* adapters return a result or None and get_openai_recommendation returns a
\* text, whatever the upstream reply and whatever the arguments; so a
\* request whose coordinates are present but have fewer than two components
\* ends, once it reaches the route step, with the 400 route error, and a 500
\* never stems from an adapter.
C19_AdaptersNeverRaise ==
    \A r \in Requests :
        /\ \A a \in Adapters :
               calls[r][a] > 0 =>
                   /\ returned[r][a] # Raised
                   /\ IF a = "recommendation"
                      THEN returned[r][a].py = "text"
                      ELSE returned[r][a] = None \/ IsDict(returned[r][a])
        /\ (calls[r]["route"] > 0
              /\ ~RoutePosted(origin_coords(r), destination_coords(r))) =>
               /\ Failed(r, "route")
               /\ Finished(r)
               /\ responses[r] = <<ErrorResponse(400,
                      "Unable to calculate route with provided coordinates.")>>
        /\ (Finished(r) /\ Response(r).status = 500) => HandlerRaised(r)

C19_Witness ==
    \E r \in Requests :
        /\ origin_coords(r) = List(<<37>>)
        /\ calls[r]["route"] = 1
        /\ posted[r]["route"] = None
        /\ Finished(r) /\ Response(r).status = 400

====
